---- MODULE Spec2Model ----
(***************************************************************************)
(* A model of the Byzantine Generals simulator of src/main.cpp: the Traits *)
(* class that configures a run, the static message-tree topology built by  *)
(* Process::GenerateChildren, the per-process node maps filled by          *)
(* SendMessages/ReceiveMessage, and the bottom-up reduction of Decide and  *)
(* GetMajority, driven as main() drives them.                              *)
(*                                                                         *)
(* A Path (a std::string of digit characters in the source) is a sequence  *)
(* of process ids; "" is the empty sequence.  A std::map is a function     *)
(* whose DOMAIN is its set of keys; operator[] on a missing key inserts a  *)
(* default-constructed value, which Lookup models.                         *)
(***************************************************************************)
EXTENDS Integers, Sequences, FiniteSets, TLC

\* ------------------------------------------------------------------------
\* Bounds of the model
\* ------------------------------------------------------------------------
\* largest number of processes of an enumerated configuration
MaxN == 4
\* largest number M of relay rounds of an enumerated configuration
MaxM == 1
\* largest number of (sender, destination, path) messages whose delivered
\* value the faulty senders of an enumerated configuration choose freely
MaxLieEntries == 4
\* number of further calls of Decide made on a process after main's
\* reporting loop
MaxExtraDecides == 1
\* largest number of faulty processes of an enumerated configuration
MaxFaulty == 1
\* largest n of the enumerated configurations with m = n, in which the ids
\* run out before rank m
MaxDeepN == 2

\* ------------------------------------------------------------------------
\* Global definitions (main.cpp:10-34)
\* ------------------------------------------------------------------------
ONE == "1"
ZERO == "0"
UNKNOWN == "?"
FAULTY == "X"

Values == {ONE, ZERO, UNKNOWN, FAULTY}

\* struct Node and its constructor; Node() is Node(FAULTY, FAULTY)
Node(input, output) == [input_value |-> input, output_value |-> output]

\* an empty std::map
EmptyMap == [x \in {} |-> x]

\* std::map::operator[] used as an lvalue on a possibly missing key: the map
\* after the access, with a default-constructed Node inserted when absent
Lookup(map, path) ==
    IF path \in DOMAIN map THEN map ELSE map @@ (path :> Node(FAULTY, FAULTY))

\* the parameters of main.cpp
N == 7
M == 2
SOURCE == 3
DEBUG == FALSE

\* ------------------------------------------------------------------------
\* class Traits.  A traits value t is a record:
\*   kind     "reference" for the class as written, "general" for a class
\*            rewritten with another default and fault pattern
\*   mSource, mM, mN, mDebug   the members of the class
\*   default, faulty, lie   (kind "general") the value GetDefault returns,
\*            the ids IsFaulty names, and the value GetValue returns for
\*            each message of a faulty sender, as a function of
\*            (source, destination, path)
\* ------------------------------------------------------------------------
GetSourceValue(t) == Node(ZERO, UNKNOWN)

\* a class in which a sender that is not faulty passes on the opposite value
GetValue_Inverting(t, value, source, destination, path) ==
    IF IF t.kind = "reference"
       THEN source = t.mSource \/ source = 2
       ELSE source \in t.faulty
    THEN (IF t.kind = "reference"
          THEN IF source = t.mSource
               THEN (IF destination % 2 = 1 THEN ZERO ELSE ONE)
               ELSE ONE
          ELSE t.lie[<<source, destination, path>>])
    ELSE IF value = ZERO THEN ONE ELSE ZERO

GetValue(t, value, source, destination, path) ==
    IF t.kind = "reference"
    THEN IF source = t.mSource
         THEN (IF destination % 2 = 1 THEN ZERO ELSE ONE)
         ELSE IF source = 2 THEN ONE ELSE value
    ELSE IF source \in t.faulty
         THEN t.lie[<<source, destination, path>>]
         ELSE value

GetDefault(t) ==
    IF t.kind = "reference" THEN ONE ELSE t.default

IsFaulty(t, process) ==
    IF t.kind = "reference"
    THEN process = t.mSource \/ process = 2
    ELSE process \in t.faulty

\* ------------------------------------------------------------------------
\* The static topology: Process::mChildren and Process::mPathsByRank.
\* The construction is modelled by the sequence of push_back calls it makes,
\* in order, together with the keys its debug output inserts; a push is
\* [map, rank, id, key, path]:
\*   map = "mPathsByRank":  mPathsByRank[ rank ][ id ].push_back( path )
\*   map = "mChildren":     mChildren[ key ].push_back( path )
\*   map = "mChildrenKey":  mChildren[ key ] evaluated (operator[]), which
\*                          inserts key with an empty vector when absent
\* GenerateChildren reads the static mTraits.mDebug; it is the parameter
\* debug here.
\* ------------------------------------------------------------------------
RECURSIVE GenerateChildren(_, _, _, _, _, _, _)
RECURSIVE GenerateLoop(_, _, _, _, _, _, _)

\* ids.size() of a std::vector<bool> indexed from 0
Size(ids) == Cardinality(DOMAIN ids)

\* the debug output of GenerateChildren for current_path (main.cpp:402-407):
\* mChildren[ current_path ] is evaluated
DebugChildren(debug, source, path, rank) ==
    IF debug
    THEN <<[map |-> "mChildrenKey", rank |-> rank, id |-> source,
            key |-> path, path |-> path]>>
    ELSE <<>>

\* a generation that descends one rank further
GenerateChildren_OneDeeper(debug, m, n, ids, source, current_path, rank) ==
    LET ids1 == [ids EXCEPT ![source] = FALSE]
        path == Append(current_path, source)
    IN <<[map |-> "mPathsByRank", rank |-> rank, id |-> source,
          key |-> <<>>, path |-> path]>>
       \o (IF rank <= m
           THEN GenerateLoop(debug, m, n, ids1, path, rank, 0) ELSE <<>>)
       \o DebugChildren(debug, source, path, rank)

\* a generation that does not mark the id it appends as used
GenerateChildren_NoMark(debug, m, n, ids, source, current_path, rank) ==
    LET path == Append(current_path, source)
    IN <<[map |-> "mPathsByRank", rank |-> rank, id |-> source,
          key |-> <<>>, path |-> path]>>
       \o (IF rank < m
           THEN GenerateLoop(debug, m, n, ids, path, rank, 0) ELSE <<>>)
       \o DebugChildren(debug, source, path, rank)

\* the pushes of one call of GenerateChildren; ids is passed by value
GenerateChildren(debug, m, n, ids, source, current_path, rank) ==
    LET ids1 == [ids EXCEPT ![source] = FALSE]
        path == Append(current_path, source)
    IN <<[map |-> "mPathsByRank", rank |-> rank, id |-> source,
          key |-> <<>>, path |-> path]>>
       \o (IF rank < m
           THEN GenerateLoop(debug, m, n, ids1, path, rank, 0) ELSE <<>>)
       \o DebugChildren(debug, source, path, rank)

\* the pushes of the for loop of GenerateChildren over i < ids.size(), from
\* i on (the parameter n is passed on and never read)
GenerateLoop(debug, m, n, ids, path, rank, i) ==
    IF i >= Size(ids) THEN <<>>
    ELSE IF ids[i]
         THEN GenerateChildren(debug, m, n, ids, i, path, rank + 1)
              \o <<[map |-> "mChildren", rank |-> rank + 1, id |-> i,
                    key |-> path, path |-> Append(path, i)]>>
              \o GenerateLoop(debug, m, n, ids, path, rank, i + 1)
         ELSE GenerateLoop(debug, m, n, ids, path, rank, i + 1)

\* mChildren.size() == 0 after the given pushes
ChildrenEmpty(pushes) ==
    \A k \in 1..Len(pushes) : pushes[k].map \notin {"mChildren", "mChildrenKey"}

\* the pushes of the constructor Process( id ): the tree is generated
\* whenever mChildren is still empty
ProcessTopology(pushes, t) ==
    IF ChildrenEmpty(pushes)
    THEN GenerateChildren(t.mDebug, t.mM, t.mN,
                          [i \in 0..(t.mN - 1) |-> TRUE], t.mSource, <<>>, 0)
    ELSE <<>>

\* the node map a constructed Process( id ) starts with
ProcessNodes(t, id) ==
    IF id = t.mSource THEN (<<>> :> GetSourceValue(t)) ELSE EmptyMap

RECURSIVE ConstructAll(_, _, _)
\* the first loop of main: processes i, i+1, ..., N-1 are constructed in
\* order after the given pushes
ConstructAll(pushes, t, i) ==
    IF i >= t.mN THEN pushes
    ELSE ConstructAll(pushes \o ProcessTopology(pushes, t), t, i + 1)

\* the paths pushed to one vector, in order
PushedPaths(pushes, map, rank, id, key) ==
    LET Mine(e) == /\ e.map = map
                   /\ map = "mPathsByRank" => (e.rank = rank /\ e.id = id)
                   /\ map = "mChildren" => e.key = key
        sel == SelectSeq(pushes, Mine)
    IN [k \in 1..Len(sel) |-> sel[k].path]

\* the two maps once main has constructed every process:
\* [ch |-> mChildren, pbr |-> mPathsByRank]; pbr is total over ranks 0..mM
\* and ids 0..mN-1 (a vector never pushed to is empty); a key of mChildren
\* that was only evaluated has an empty vector
Topology(t) ==
    LET pushes == ConstructAll(<<>>, t, 0)
        keys == {pushes[k].key :
                   k \in {j \in 1..Len(pushes) :
                            pushes[j].map \in {"mChildren", "mChildrenKey"}}}
    IN [ch  |-> [key \in keys |-> PushedPaths(pushes, "mChildren", 0, 0, key)],
        pbr |-> [r \in 0..t.mM |-> [i \in 0..(t.mN - 1) |->
                    PushedPaths(pushes, "mPathsByRank", r, i, <<>>)]]]

RECURSIVE ConcatFrom(_, _, _)
\* the paths of pbrRank[i], pbrRank[i+1], ..., pbrRank[n-1] in iteration order
ConcatFrom(pbrRank, n, i) ==
    IF i >= n THEN <<>> ELSE pbrRank[i] \o ConcatFrom(pbrRank, n, i + 1)

\* the paths visited by "for i < mN, for j < mPathsByRank[rank][i].size()"
RankPaths(pbr, n, rank) == ConcatFrom(pbr[rank], n, 0)

\* ------------------------------------------------------------------------
\* Messaging: Process::ReceiveMessage and Process::SendMessages
\* ------------------------------------------------------------------------
\* mNodes[ path ] = node
ReceiveMessage(map, path, node) ==
    IF path \in DOMAIN map
    THEN [map EXCEPT ![path] = node]
    ELSE map @@ (path :> node)

\* a sender that also skips itself
Addressed_SkipSelf(t, id, j) == j # t.mSource /\ j # id

\* the condition "if ( j != mTraits.mSource )" under which the sender id
\* delivers to process j
Addressed(t, id, j) == j # t.mSource

RECURSIVE Recipients(_, _, _)
\* the recipients of the loop "for j < mN" of the sender id, in order, from j on
Recipients(t, id, j) ==
    IF j >= t.mN THEN <<>>
    ELSE IF Addressed(t, id, j)
         THEN <<j>> \o Recipients(t, id, j + 1)
         ELSE Recipients(t, id, j + 1)

\* a sender that reads the node at the path it sends
SourceNodePath_Whole(path) == path

\* source_node_path: the path with its last id dropped (substr)
SourceNodePath(path) == SubSeq(path, 1, Len(path) - 1)

\* The body of the outer loop of SendMessages for one path of the sender id:
\* the node at source_node_path is read from the sender's own map
\* (operator[]), and Node( value, UNKNOWN ) is delivered to every process but
\* the source.  s is [nodes |-> the node maps of all processes, log |-> the
\* deliveries so far (the trace the debug flag prints, plus whether the key
\* was new to the receiver)].
SendPath(s, t, round, id, path) ==
    LET source_node_path == SourceNodePath(path)
        nodes1 == [s.nodes EXCEPT ![id] = Lookup(@, source_node_path)]
        source_node == nodes1[id][source_node_path]
        value(j) == GetValue(t, source_node.input_value, id, j, path)
        rcp == Recipients(t, id, 0)
    IN [nodes |-> [j \in DOMAIN nodes1 |->
                      IF Addressed(t, id, j)
                      THEN ReceiveMessage(nodes1[j], path, Node(value(j), UNKNOWN))
                      ELSE nodes1[j]],
        log |-> s.log \o [k \in 1..Len(rcp) |->
                            [round |-> round, from |-> id, to |-> rcp[k],
                             path |-> path, value |-> value(rcp[k]),
                             fresh |-> path \notin DOMAIN nodes1[rcp[k]]]]]

RECURSIVE SendFrom(_, _, _, _, _, _)
\* the outer loop of SendMessages over the paths of the sender, from i on
SendFrom(s, t, paths, round, id, i) ==
    IF i > Len(paths) THEN s
    ELSE SendFrom(SendPath(s, t, round, id, paths[i]), t, paths, round, id, i + 1)

\* processes[ id ].SendMessages( round, processes )
SendMessages(s, t, pbr, round, id) ==
    SendFrom(s, t, pbr[round][id], round, id, 1)

\* ------------------------------------------------------------------------
\* Decision: Process::GetMajority and Process::Decide
\* ------------------------------------------------------------------------
\* the set of the elements of a sequence
Range(seq) == {seq[k] : k \in 1..Len(seq)}

\* operator[] applied to each of a set of keys: the map after the accesses,
\* a default-constructed Node inserted at every key that was absent
LookupAll(map, paths) ==
    [k \in DOMAIN map \cup paths |->
        IF k \in DOMAIN map THEN map[k] ELSE Node(FAULTY, FAULTY)]

\* std::map::operator[] on mChildren: the map after mChildren[ path ] has
\* been evaluated, an empty vector inserted when path was absent
LookupChildren(ch, path) ==
    IF path \in DOMAIN ch THEN ch ELSE ch @@ (path :> <<>>)

\* mChildren[ path ] evaluated for each of a set of paths: the map after
LookupChildrenAll(ch, paths) ==
    [k \in DOMAIN ch \cup paths |-> IF k \in DOMAIN ch THEN ch[k] ELSE <<>>]

\* the vector that mChildren[ path ] evaluates to; the key the evaluation
\* inserts is in LookupChildren(ch, path)
ChildrenOf(ch, path) == LookupChildren(ch, path)[path]

\* a majority that needs only half of the votes
MajorityOf_AtLeastHalf(t, counts, n) ==
    IF counts[ONE] >= n \div 2 THEN ONE
    ELSE IF counts[ZERO] >= n \div 2 THEN ZERO
    ELSE IF counts[ONE] = counts[ZERO] /\ counts[ONE] = n \div 2
         THEN GetDefault(t)
         ELSE UNKNOWN

\* a majority without the tie-break
MajorityOf_NoDefault(t, counts, n) ==
    IF counts[ONE] > n \div 2 THEN ONE
    ELSE IF counts[ZERO] > n \div 2 THEN ZERO
    ELSE UNKNOWN

\* the value GetMajority returns for n children with the given tallies
\* (n / 2 is the integer division of size_t)
MajorityOf(t, counts, n) ==
    IF counts[ONE] > n \div 2 THEN ONE
    ELSE IF counts[ZERO] > n \div 2 THEN ZERO
    ELSE IF counts[ONE] = counts[ZERO] /\ counts[ONE] = n \div 2
         THEN GetDefault(t)
         ELSE UNKNOWN

\* GetMajority( path ) on a node map in which every child of path is a key
\* (the caller has applied LookupAll): [ret |-> the value returned,
\* ch |-> mChildren after mChildren[ path ] has been evaluated]; counts[v]
\* is the number of children whose output value is v.
GetMajority(t, ch, map, path) ==
    LET ch1 == LookupChildren(ch, path)
        children == ch1[path]
        n == Len(children)
        counts == [v \in Values |->
                     Cardinality({i \in 1..n : map[children[i]].output_value = v})]
    IN [ret |-> MajorityOf(t, counts, n), ch |-> ch1]

\* Step 1 of Decide: every rank-mM path is looked up and its output value
\* set to its input value.  The iterations touch distinct nodes (or, for a
\* path listed twice, repeat the same assignment), so they are applied at once.
LeafPass(t, pbr, map) ==
    LET paths == Range(RankPaths(pbr, t.mN, t.mM))
        map1  == LookupAll(map, paths)
    IN [k \in DOMAIN map1 |->
          IF k \in paths
          THEN [map1[k] EXCEPT !.output_value = map1[k].input_value]
          ELSE map1[k]]

\* The two inner loops of Step 2 of Decide for one round: every path of the
\* round and every child GetMajority reads is looked up, and the output value
\* of each path is set to GetMajority( path ).  GetMajority reads only nodes
\* of the next rank, which this round does not assign, so the iterations are
\* applied at once.  The result is [map |-> the node map after,
\* ch |-> mChildren after], every path of the round being a key of
\* mChildren once GetMajority has evaluated mChildren[ path ].
ReduceRank(t, ch, map, round, pbr) ==
    LET paths == Range(RankPaths(pbr, t.mN, round))
        read  == UNION {Range(ChildrenOf(ch, p)) : p \in paths}
        map1  == LookupAll(map, paths \cup read)
    IN [map |-> [k \in DOMAIN map1 |->
                   IF k \in paths
                   THEN [map1[k] EXCEPT
                           !.output_value = GetMajority(t, ch, map1, k).ret]
                   ELSE map1[k]],
        ch  |-> LookupChildrenAll(ch, paths)]

RECURSIVE WorkUp(_, _, _, _, _)
\* Step 2 of Decide: rounds round, round-1, ..., 0; [map, ch] after
WorkUp(t, ch, pbr, map, round) ==
    IF round < 0 THEN [map |-> map, ch |-> ch]
    ELSE LET r == ReduceRank(t, ch, map, round, pbr)
         IN WorkUp(t, r.ch, pbr, r.map, round - 1)

\* Step 2 run before Step 1
DecidePasses_Swapped(t, ch, pbr, map) ==
    LET w == WorkUp(t, ch, pbr, map, t.mM - 1)
    IN [map |-> LeafPass(t, pbr, w.map), ch |-> w.ch]

\* Steps 1 and 2 of Decide, in the order of the source; [map, ch] after
DecidePasses(t, ch, pbr, map) ==
    WorkUp(t, ch, pbr, LeafPass(t, pbr, map), t.mM - 1)

\* a source that returns the output value of its node
Decide_SourceOutput(t, ch, pbr, map, id) ==
    IF id = t.mSource
    THEN LET map1 == Lookup(map, <<>>)
         IN [map |-> map1, ret |-> map1[<<>>].output_value, ch |-> ch]
    ELSE LET d == DecidePasses(t, ch, pbr, map)
             top_path == Head(pbr[0][t.mSource])
             map2 == Lookup(d.map, top_path)
         IN [map |-> map2, ret |-> map2[top_path].output_value, ch |-> d.ch]

\* a lieutenant that returns the input value of the top node
Decide_TopInput(t, ch, pbr, map, id) ==
    IF id = t.mSource
    THEN LET map1 == Lookup(map, <<>>)
         IN [map |-> map1, ret |-> map1[<<>>].input_value, ch |-> ch]
    ELSE LET d == DecidePasses(t, ch, pbr, map)
             top_path == Head(pbr[0][t.mSource])
             map2 == Lookup(d.map, top_path)
         IN [map |-> map2, ret |-> map2[top_path].input_value, ch |-> d.ch]

\* Decide() of process id on its node map: [map |-> the node map after,
\* ret |-> the value returned, ch |-> mChildren after]
Decide(t, ch, pbr, map, id) ==
    IF id = t.mSource
    THEN LET map1 == Lookup(map, <<>>)
         IN [map |-> map1, ret |-> map1[<<>>].input_value, ch |-> ch]
    ELSE LET d == DecidePasses(t, ch, pbr, map)
             top_path == Head(pbr[0][t.mSource])
             map2 == Lookup(d.map, top_path)
         IN [map |-> map2, ret |-> map2[top_path].output_value, ch |-> d.ch]

RECURSIVE Visited(_, _)
\* the paths the recursion of Dump and DumpDot visits from path on: path and
\* whatever is visited from each element of mChildren[ path ]
Visited(ch, path) ==
    {path} \cup UNION {Visited(ch, c) : c \in Range(ChildrenOf(ch, path))}

\* Dump() of a process, called without argument, on its node map:
\* [map |-> the node map after, ch |-> mChildren after].  Every path
\* visited is looked up in mChildren (loop condition) and in mNodes, both
\* with operator[].  The text returned holds the nodes as they are in the
\* map after and is not part of the state.
Dump(t, ch, pbr, map) ==
    LET paths == Visited(ch, Head(pbr[0][t.mSource]))
    IN [map |-> LookupAll(map, paths), ch |-> LookupChildrenAll(ch, paths)]

\* DumpDot() of a process, called without argument: as Dump, and for every
\* visited path longer than one id the node of the path minus its last id
\* is looked up too (parent_node)
DumpDot(t, ch, pbr, map) ==
    LET paths   == Visited(ch, Head(pbr[0][t.mSource]))
        parents == {SourceNodePath(q) : q \in {r \in paths : Len(r) # 1}}
    IN [map |-> LookupAll(map, paths \cup parents),
        ch  |-> LookupChildrenAll(ch, paths)]

\* The keys of mNodes that Decide() of a lieutenant accesses with operator[]:
\* every path of mPathsByRank[ r ] for r = mM, mM-1, ..., 0 (main.cpp:233-252),
\* every child GetMajority reads for a path of rank below mM
\* (main.cpp:351-357), and top_path (main.cpp:253-254)
DecideLookups(t, ch, pbr) ==
    LET ranked(r) == Range(RankPaths(pbr, t.mN, r))
    IN UNION {ranked(r) : r \in 0..t.mM}
       \cup UNION {UNION {Range(ChildrenOf(ch, p)) : p \in ranked(r)} :
                     r \in 0..(t.mM - 1)}
       \cup {Head(pbr[0][t.mSource])}

\* ------------------------------------------------------------------------
\* The configurations of a run
\* ------------------------------------------------------------------------
\* the Traits object of main.cpp:424 with parameters n, m, source
ReferenceTraits(n, m, source) ==
    [kind |-> "reference", mSource |-> source, mM |-> m, mN |-> n,
     mDebug |-> DEBUG, default |-> ONE, faulty |-> {}, lie |-> EmptyMap]

\* the same class constructed with debug = true (main.cpp:60)
DebugTraits(n, m, source) ==
    [ReferenceTraits(n, m, source) EXCEPT !.mDebug = TRUE]

\* the values a faulty sender delivers: the two decidable values, and UNKNOWN
\* standing for any other character
LieValues == {ZERO, ONE, UNKNOWN}

\* the paths whose messages process id sends: mPathsByRank[r][id] for all r
PathsOf(pbr, id) ==
    UNION {{pbr[r][id][k] : k \in 1..Len(pbr[r][id])} : r \in DOMAIN pbr}

\* the calls GetValue( _, source, destination, path ) made for the senders F
LieEntries(n, m, source, F) ==
    LET pbr == Topology(ReferenceTraits(n, m, source)).pbr
    IN UNION {{<<f, d, p>> : d \in (0..(n - 1)) \ {source},
                             p \in PathsOf(pbr, f)} : f \in F}

\* the processes that IsFaulty of the class as written names
\* (main.cpp:113-119), called for every process of a run
WrittenFaulty(n, m, source) ==
    {p \in 0..(n - 1) : IsFaulty(ReferenceTraits(n, m, source), p)}

\* GetValue of the class as written (main.cpp:89-97) as a table over the
\* calls made for the senders F; for the senders it names faulty the value
\* passed in is not read
WrittenLie(n, m, source, F) ==
    [e \in LieEntries(n, m, source, F) |->
        GetValue(ReferenceTraits(n, m, source), ZERO, e[1], e[2], e[3])]

\* the sets of processes IsFaulty names in the enumerated configurations:
\* the set the class as written names, and every small set
FaultySets(n, m, source) ==
    {G \in SUBSET (0..(n - 1)) :
        \/ G = WrittenFaulty(n, m, source)
        \/ /\ Cardinality(G) <= MaxFaulty
           /\ Cardinality(LieEntries(n, m, source, G)) <= MaxLieEntries}

\* the GetValue tables enumerated for the faulty senders F: every table for
\* a small set with few calls, the table of the class as written otherwise
LieTables(n, m, source, F) ==
    IF /\ Cardinality(F) <= MaxFaulty
       /\ Cardinality(LieEntries(n, m, source, F)) <= MaxLieEntries
    THEN [LieEntries(n, m, source, F) -> LieValues]
    ELSE {WrittenLie(n, m, source, F)}

\* a Traits class with parameters n, m, source in which GetDefault returns
\* default, the processes of F are faulty and GetValue returns
\* lie[source, destination, path] for a faulty source
GeneralTraits(n, m, source) ==
    UNION {{[kind |-> "general", mSource |-> source, mM |-> m, mN |-> n,
             mDebug |-> DEBUG, default |-> df, faulty |-> F, lie |-> l] :
               df \in {ZERO, ONE},
               l \in LieTables(n, m, source, F)} :
            F \in FaultySets(n, m, source)}

\* the configurations with n processes
TraitsOfSize(n) ==
    UNION {{ReferenceTraits(n, m, s), DebugTraits(n, m, s)}
           \cup GeneralTraits(n, m, s) :
             m \in 0..MaxM, s \in 0..(n - 1)}

\* the configurations with m = n of the class as written
DeepTraits ==
    UNION {{ReferenceTraits(n, n, s) : s \in 0..(n - 1)} : n \in 2..MaxDeepN}

\* every configuration that is run
TraitsSet ==
    {ReferenceTraits(N, M, SOURCE)} \cup DeepTraits
    \cup UNION {TraitsOfSize(n) : n \in 1..MaxN}

\* ------------------------------------------------------------------------
\* The state of a run of main
\* ------------------------------------------------------------------------
VARIABLES
    mTraits,        \* Process::mTraits (main.cpp:338, 424)
    mChildren,      \* Process::mChildren (main.cpp:339)
    mPathsByRank,   \* Process::mPathsByRank (main.cpp:340)
    mNodes,         \* mNodes[id]: Process::mNodes of processes[id] (main.cpp:334)
    pc,             \* position of main in its loops: [phase, round, j,
                    \* dumps]; once main has reported (phase "done"), dumps
                    \* is 1 when its dump loop has read an id and 0
                    \* otherwise, j is the process on which Decide is called
                    \* again and round the number of those calls
    decision,       \* decision[id]: the value the last Decide of id returned
    calls,          \* calls[id]: the number of calls of Decide on id
    log             \* the deliveries in order (the debug trace, main.cpp:195-204)

vars == <<mTraits, mChildren, mPathsByRank, mNodes, pc, decision, calls, log>>

\* no Decide has returned yet
NoDecision == "none"

Procs == 0..(mTraits.mN - 1)

\* main.cpp:431-433: every process constructed, round 0 about to start
Init ==
    \E t \in TraitsSet :
        /\ mTraits = t
        /\ mChildren = Topology(t).ch
        /\ mPathsByRank = Topology(t).pbr
        /\ mNodes = [id \in 0..(t.mN - 1) |-> ProcessNodes(t, id)]
        /\ pc = [phase |-> "send", round |-> 0, j |-> 0, dumps |-> 0]
        /\ decision = [id \in 0..(t.mN - 1) |-> NoDecision]
        /\ calls = [id \in 0..(t.mN - 1) |-> 0]
        /\ log = <<>>

\* messaging loops nested the other way round: each process sends all its
\* rounds before the next process sends any
Send_ProcessMajor ==
    /\ pc.phase = "send"
    /\ LET s == SendMessages([nodes |-> mNodes, log |-> log], mTraits,
                             mPathsByRank, pc.round, pc.j)
       IN /\ mNodes' = s.nodes
          /\ log' = s.log
    /\ pc' = IF pc.round + 1 <= mTraits.mM
             THEN [pc EXCEPT !.round = pc.round + 1]
             ELSE IF pc.j + 1 < mTraits.mN
                  THEN [pc EXCEPT !.round = 0, !.j = pc.j + 1]
                  ELSE [pc EXCEPT !.phase = "report", !.j = 0]
    /\ UNCHANGED <<mTraits, mChildren, mPathsByRank, decision, calls>>

\* main.cpp:439-441: one iteration of the messaging loops,
\* processes[ j ].SendMessages( i, processes )
Send ==
    /\ pc.phase = "send"
    /\ LET s == SendMessages([nodes |-> mNodes, log |-> log], mTraits,
                             mPathsByRank, pc.round, pc.j)
       IN /\ mNodes' = s.nodes
          /\ log' = s.log
    /\ pc' = IF pc.j + 1 < mTraits.mN
             THEN [pc EXCEPT !.j = pc.j + 1]
             ELSE IF pc.round + 1 <= mTraits.mM
                  THEN [pc EXCEPT !.round = pc.round + 1, !.j = 0]
                  ELSE [pc EXCEPT !.phase = "report", !.j = 0]
    /\ UNCHANGED <<mTraits, mChildren, mPathsByRank, decision, calls>>

\* the effect of one call processes[ id ].Decide()
CallDecide(id) ==
    LET d == Decide(mTraits, mChildren, mPathsByRank, mNodes[id], id)
    IN /\ mNodes' = [mNodes EXCEPT ![id] = d.map]
       /\ mChildren' = d.ch
       /\ decision' = [decision EXCEPT ![id] = d.ret]
       /\ calls' = [calls EXCEPT ![id] = @ + 1]

\* main.cpp:446-455: one iteration of the reporting loop; Decide is called on
\* the processes that are not faulty
Report ==
    /\ pc.phase = "report"
    /\ IF ~IsFaulty(mTraits, pc.j)
       THEN CallDecide(pc.j)
       ELSE UNCHANGED <<mNodes, mChildren, decision, calls>>
    /\ pc' = IF pc.j + 1 < mTraits.mN
             THEN [pc EXCEPT !.j = pc.j + 1]
             ELSE [pc EXCEPT !.phase = "done", !.round = 0, !.j = 0]
    /\ UNCHANGED <<mTraits, mPathsByRank, log>>

\* main.cpp:457-475: one iteration of the dump loop in which the line read
\* names process id: Dump() first when DEBUG (the value mTraits.mDebug was
\* constructed with), then DumpDot().  An empty line ends the loop and
\* changes nothing.  The loop comes right after the report and main calls
\* no Decide after it.
DumpProcess(id) ==
    /\ pc.phase = "done"
    /\ pc.round = 0
    /\ LET d1 == IF mTraits.mDebug
                 THEN Dump(mTraits, mChildren, mPathsByRank, mNodes[id])
                 ELSE [map |-> mNodes[id], ch |-> mChildren]
           d2 == DumpDot(mTraits, d1.ch, mPathsByRank, d1.map)
       IN /\ mNodes' = [mNodes EXCEPT ![id] = d2.map]
          /\ mChildren' = d2.ch
    /\ pc' = [pc EXCEPT !.dumps = 1]
    /\ UNCHANGED <<mTraits, mPathsByRank, decision, calls, log>>

\* a further call of Decide once main has reported, in place of the dump
\* loop, on any one process id (a call changes the node map of its process
\* only, and inserts in mChildren the keys the first call inserted, so
\* further calls on different processes do not interact)
DecideAgain(id) ==
    /\ pc.phase = "done"
    /\ pc.dumps = 0
    /\ pc.round < MaxExtraDecides
    /\ pc.round > 0 => pc.j = id
    /\ CallDecide(id)
    /\ pc' = [pc EXCEPT !.round = pc.round + 1, !.j = id]
    /\ UNCHANGED <<mTraits, mPathsByRank, log>>

Next ==
    \/ Send
    \/ Report
    \/ \E id \in Procs : DumpProcess(id)
    \/ \E id \in Procs : DecideAgain(id)

Spec == Init /\ [][Next]_vars

\* ------------------------------------------------------------------------
\* Vocabulary of the properties
\* ------------------------------------------------------------------------
\* the processes other than the source
Lieutenants == Procs \ {mTraits.mSource}

\* the processes IsFaulty names
FaultyProcs == {p \in Procs : IsFaulty(mTraits, p)}

\* rounds 0..mM have completed
MessagingDone == pc.phase \in {"report", "done"}

\* every path of the topology
TopologyPaths == UNION {PathsOf(mPathsByRank, id) : id \in Procs}

\* the last id of a path
Last(path) == path[Len(path)]

\* the root path of the tree
TopPath == Head(mPathsByRank[0][mTraits.mSource])

\* the number of children of path whose output value at process p is v
ChildCount(p, path, v) ==
    Cardinality({k \in 1..Len(mChildren[path]) :
                   mNodes[p][mChildren[path][k]].output_value = v})

\* main's Traits run with main's N, M and SOURCE
IsReferenceRun == mTraits = ReferenceTraits(N, M, SOURCE)

\* ------------------------------------------------------------------------
\* C1  Agreement under a faulty source: when n > 3m, the source is faulty
\* and at most m processes are faulty, then once main has reported, all
\* non-faulty processes hold the same decision, whatever the faulty
\* processes delivered.
\* ------------------------------------------------------------------------
C1_AgreementFaultySource ==
    ( /\ pc.phase = "done"
      /\ mTraits.mN > 3 * mTraits.mM
      /\ IsFaulty(mTraits, mTraits.mSource)
      /\ Cardinality(FaultyProcs) <= mTraits.mM )
    => \A p, q \in Procs \ FaultyProcs :
          /\ decision[p] \in Values
          /\ decision[p] = decision[q]

\* a faulty source has told two lieutenants different values, the run is
\* within n > 3m with at most m faults, and the lieutenants have decided
C1_Witness ==
    /\ pc.phase = "done"
    /\ mTraits.mN > 3 * mTraits.mM
    /\ IsFaulty(mTraits, mTraits.mSource)
    /\ Cardinality(FaultyProcs) <= mTraits.mM
    /\ \E p, q \in Lieutenants :
          /\ mNodes[p][TopPath].input_value = ZERO
          /\ mNodes[q][TopPath].input_value = ONE
          /\ decision[p] \in Values
          /\ decision[q] \in Values

\* ------------------------------------------------------------------------
\* C2  Validity: when n > 3m, the source is not faulty and at most m
\* processes are faulty, then once main has reported, every non-faulty
\* process has decided the input value of the source's seeded node.
\* ------------------------------------------------------------------------
C2_ValidityHonestSource ==
    ( /\ pc.phase = "done"
      /\ mTraits.mN > 3 * mTraits.mM
      /\ ~IsFaulty(mTraits, mTraits.mSource)
      /\ Cardinality(FaultyProcs) <= mTraits.mM )
    => \A p \in Procs \ FaultyProcs :
          decision[p] = GetSourceValue(mTraits).input_value

\* an honest source, one faulty lieutenant that told a non-faulty lieutenant
\* a value other than the source's, and that lieutenant has decided
C2_Witness ==
    /\ pc.phase = "done"
    /\ mTraits.mN > 3 * mTraits.mM
    /\ ~IsFaulty(mTraits, mTraits.mSource)
    /\ Cardinality(FaultyProcs) <= mTraits.mM
    /\ \E f \in FaultyProcs, p \in Lieutenants \ FaultyProcs :
          \E k \in 1..Len(log) :
             /\ log[k].from = f
             /\ log[k].to = p
             /\ log[k].value # GetSourceValue(mTraits).input_value
             /\ decision[p] = GetSourceValue(mTraits).input_value

\* ------------------------------------------------------------------------
\* C3  Reference scenario: main as written (n = 7, m = 2, source 3, the
\* source delivering ZERO to odd and ONE to even ids, process 2 always
\* delivering ONE, default ONE) ends with one identical decision for
\* processes 0, 1, 4, 5 and 6.
\* ------------------------------------------------------------------------
C3_ReferenceScenario ==
    (IsReferenceRun /\ pc.phase = "done")
    => \A p, q \in {0, 1, 4, 5, 6} :
          /\ decision[p] \in {ZERO, ONE}
          /\ decision[p] = decision[q]

\* the reference run has reported, after the source told 0 and 1 differently
C3_Witness ==
    /\ IsReferenceRun
    /\ pc.phase = "done"
    /\ mNodes[0][<<3>>].input_value = ONE
    /\ mNodes[1][<<3>>].input_value = ZERO
    /\ \A p \in {0, 1, 4, 5, 6} : calls[p] >= 1

\* ------------------------------------------------------------------------
\* C4  Source triviality: in every state (before, during and after the
\* messaging rounds, for every n including n = 1) a call of Decide on the
\* source would return the input value it was seeded with, and every value
\* a call on the source did return is that value.
\* ------------------------------------------------------------------------
C4_SourceTriviality ==
    /\ Decide(mTraits, mChildren, mPathsByRank, mNodes[mTraits.mSource],
              mTraits.mSource).ret = GetSourceValue(mTraits).input_value
    /\ calls[mTraits.mSource] >= 1
       => decision[mTraits.mSource] = GetSourceValue(mTraits).input_value

\* the source delivered a value other than its seed and has then decided
C4_Witness ==
    /\ calls[mTraits.mSource] >= 1
    /\ decision[mTraits.mSource] = GetSourceValue(mTraits).input_value
    /\ \E k \in 1..Len(log) :
          /\ log[k].from = mTraits.mSource
          /\ log[k].value # GetSourceValue(mTraits).input_value

\* ------------------------------------------------------------------------
\* C5  Tie-break discipline: at every internal node of a lieutenant that has
\* decided, when neither ONE nor ZERO has a strict majority among the
\* children's outputs, the node's output is the default if the ONE and ZERO
\* counts are equal and each exactly half the number of children, and
\* UNKNOWN otherwise.
\* ------------------------------------------------------------------------
C5_TieBreakOnlyOnExactHalf ==
    \A p \in Lieutenants : \A path \in DOMAIN mChildren :
        LET n     == Len(mChildren[path])
            ones  == ChildCount(p, path, ONE)
            zeros == ChildCount(p, path, ZERO)
        IN ( /\ calls[p] >= 1
             /\ Len(path) <= mTraits.mM
             /\ 2 * ones <= n
             /\ 2 * zeros <= n )
           => mNodes[p][path].output_value =
                 IF ones = zeros /\ 2 * ones = n
                 THEN GetDefault(mTraits)
                 ELSE UNKNOWN

\* ------------------------------------------------------------------------
\* C6  All-UNKNOWN propagation: at every internal node of a lieutenant that
\* has decided, one-child nodes included, if every child's output is UNKNOWN
\* then the node's output is UNKNOWN.
\* ------------------------------------------------------------------------
C6_AllUnknownPropagates ==
    \A p \in Lieutenants : \A path \in DOMAIN mChildren :
        ( /\ calls[p] >= 1
          /\ Len(path) <= mTraits.mM
          /\ Len(mChildren[path]) >= 1
          /\ \A k \in 1..Len(mChildren[path]) :
                mNodes[p][mChildren[path][k]].output_value = UNKNOWN )
        => mNodes[p][path].output_value = UNKNOWN

\* ------------------------------------------------------------------------
\* C7  Idempotence of Decide: a call of Decide on a process that has
\* already decided returns the value of the previous call and leaves the
\* process's node map as the previous call left it.
\* ------------------------------------------------------------------------
C7_DecideIdempotent ==
    [][\A id \in Procs :
          (calls[id] >= 1 /\ calls'[id] = calls[id] + 1)
          => (decision'[id] = decision[id] /\ mNodes'[id] = mNodes[id])]_vars

\* a lieutenant of a tree with relayed messages has decided twice, on a
\* decidable value
C7_Witness ==
    \E id \in Lieutenants :
        /\ calls[id] >= 2
        /\ mTraits.mM >= 1
        /\ mTraits.mN >= 3
        /\ decision[id] \in {ZERO, ONE}

\* ------------------------------------------------------------------------
\* C8  Lifecycle frame: a messaging step leaves every existing node of every
\* process as it is, and every node it adds to a process's map is a node
\* delivered to that process in that step; a call of Decide on a process
\* adds and removes no key of its map and changes no input value.
\* ------------------------------------------------------------------------
C8_LifecycleFrame ==
    [][\A p \in Procs :
          /\ pc.phase = "send" =>
                /\ \A k \in DOMAIN mNodes[p] :
                      k \in DOMAIN mNodes'[p] /\ mNodes'[p][k] = mNodes[p][k]
                /\ \A k \in DOMAIN mNodes'[p] \ DOMAIN mNodes[p] :
                      \E e \in (Len(log) + 1)..Len(log') :
                         /\ log'[e].to = p
                         /\ log'[e].path = k
                         /\ mNodes'[p][k] = Node(log'[e].value, UNKNOWN)
          /\ calls'[p] # calls[p] =>
                /\ DOMAIN mNodes'[p] = DOMAIN mNodes[p]
                /\ \A k \in DOMAIN mNodes[p] :
                      mNodes'[p][k].input_value = mNodes[p][k].input_value
      ]_vars

\* a lieutenant holds relayed nodes, one delivered by itself, and has
\* decided, which changed an output value
C8_Witness ==
    \E p \in Lieutenants :
        /\ calls[p] >= 1
        /\ mTraits.mM >= 1
        /\ \E e \in 1..Len(log) : log[e].from = p /\ log[e].to = p
        /\ \E k \in DOMAIN mNodes[p] : mNodes[p][k].output_value # UNKNOWN

\* ------------------------------------------------------------------------
\* C9  Exact-tie scenario: with n = 3, m = 1, source 0 faulty delivering ONE
\* to process 1 and ZERO to process 2 and no other fault, once process 1 has
\* decided, the root of its tree has the two children [0,1] and [0,2] with
\* outputs ONE and ZERO, and its decision is the default.
\* ------------------------------------------------------------------------
IsTieRun ==
    /\ mTraits.kind = "general"
    /\ mTraits.mN = 3
    /\ mTraits.mM = 1
    /\ mTraits.mSource = 0
    /\ mTraits.faulty = {0}
    /\ mTraits.lie[<<0, 1, <<0>>>>] = ONE
    /\ mTraits.lie[<<0, 2, <<0>>>>] = ZERO

C9_ExactTieDefault ==
    (IsTieRun /\ calls[1] >= 1)
    => /\ mChildren[<<0>>] = << <<0, 1>>, <<0, 2>> >>
       /\ mNodes[1][<<0, 1>>].output_value = ONE
       /\ mNodes[1][<<0, 2>>].output_value = ZERO
       /\ decision[1] = GetDefault(mTraits)
       /\ \E e \in 1..Len(log) :
             log[e].from = 1 /\ log[e].to = 1 /\ log[e].path = <<0, 1>>

\* the tie run with default ZERO, in which process 1 has decided
C9_Witness ==
    /\ IsTieRun
    /\ calls[1] >= 1
    /\ GetDefault(mTraits) = ZERO
    /\ decision[1] = ZERO

\* ------------------------------------------------------------------------
\* C10  Node completeness after messaging.
\* As claimed: after round m every process, the source included, has a node
\* for every topology path whose last id is not its own, and no process
\* delivers to itself.
\* ------------------------------------------------------------------------
C10_Original ==
    MessagingDone
    => /\ \A p \in Procs : \A path \in TopologyPaths :
             Last(path) # p => path \in DOMAIN mNodes[p]
       /\ \A e \in 1..Len(log) : log[e].from # log[e].to

\* C10 as amended: after round m every lieutenant has a node for every
\* topology path, the paths ending in its own id included, which it
\* delivered to itself; no delivery of any round has the source as its
\* receiver.
C10_NodeCompleteness ==
    MessagingDone
    => /\ \A p \in Lieutenants : \A path \in TopologyPaths :
             /\ path \in DOMAIN mNodes[p]
             /\ Last(path) = p =>
                   \E e \in 1..Len(log) :
                      log[e].from = p /\ log[e].to = p /\ log[e].path = path
       /\ \A e \in 1..Len(log) : log[e].to # mTraits.mSource

\* messaging is over in a run with relays: a lieutenant holds a node at a
\* rank-1 path ending in its own id
C10_Witness ==
    /\ MessagingDone
    /\ mTraits.mM >= 1
    /\ \E p \in Lieutenants :
          <<mTraits.mSource, p>> \in DOMAIN mNodes[p]

\* ------------------------------------------------------------------------
\* C11  No missing node during decision: once rounds 0..m have run, every
\* path that Decide or GetMajority of a lieutenant looks up is a key of that
\* lieutenant's node map, and the node there carries an input value that a
\* delivery to that lieutenant at that path brought, not the FAULTY of a
\* default-constructed node.
\* ------------------------------------------------------------------------
C11_NoMissingNode ==
    MessagingDone
    => LET lookups == DecideLookups(mTraits, mChildren, mPathsByRank)
       IN \A p \in Lieutenants : \A path \in lookups :
             /\ path \in DOMAIN mNodes[p]
             /\ mNodes[p][path].input_value # FAULTY
             /\ \E e \in 1..Len(log) :
                   /\ log[e].to = p
                   /\ log[e].path = path
                   /\ log[e].value = mNodes[p][path].input_value

\* a lieutenant of a tree with relayed messages has decided, having looked
\* up a leaf that it delivered to itself and a leaf another lieutenant sent
C11_Witness ==
    \E p, q \in Lieutenants :
        /\ p # q
        /\ calls[p] >= 1
        /\ mTraits.mM >= 1
        /\ <<mTraits.mSource, p>> \in
              DecideLookups(mTraits, mChildren, mPathsByRank)
        /\ <<mTraits.mSource, q>> \in
              DecideLookups(mTraits, mChildren, mPathsByRank)
        /\ mNodes[p][<<mTraits.mSource, p>>].output_value # UNKNOWN
        /\ mNodes[p][<<mTraits.mSource, q>>].output_value # UNKNOWN

\* ------------------------------------------------------------------------
\* C12  Exactly-once delivery: over rounds 0..m no two deliveries have the
\* same sender, receiver and path, no delivery finds its path already a key
\* of the receiver's node map (self-deliveries included), and once the
\* rounds are over every path has been delivered to every lieutenant by the
\* sender that is its last id.
\* ------------------------------------------------------------------------
C12_ExactlyOnceDelivery ==
    /\ \A e \in 1..Len(log) : log[e].fresh
    /\ \A e, f \in 1..Len(log) :
          ( /\ log[e].from = log[f].from
            /\ log[e].to = log[f].to
            /\ log[e].path = log[f].path ) => e = f
    /\ MessagingDone =>
          \A path \in TopologyPaths : \A p \in Lieutenants :
             \E e \in 1..Len(log) :
                /\ log[e].from = Last(path)
                /\ log[e].to = p
                /\ log[e].path = path

\* ------------------------------------------------------------------------
\* C13  Round synchrony: every delivery made by a step of round r carries a
\* rank-r path and follows only deliveries of paths of rank r or less, and
\* for a path P of rank 1 or more the node the sender reads, P with its last
\* id dropped, is in the sender's map with the input value that a delivery
\* of the previous round brought to the sender.
\* ------------------------------------------------------------------------
C13_RoundSynchrony ==
    [][\A f \in (Len(log) + 1)..Len(log') :
          /\ log'[f].round = pc.round
          /\ Len(log'[f].path) = log'[f].round + 1
          /\ \A e \in 1..Len(log) : Len(log[e].path) <= Len(log'[f].path)
          /\ Len(log'[f].path) >= 2 =>
                /\ SourceNodePath(log'[f].path) \in DOMAIN mNodes[log'[f].from]
                /\ \E e \in 1..Len(log) :
                      /\ log[e].round = log'[f].round - 1
                      /\ log[e].to = log'[f].from
                      /\ log[e].path = SourceNodePath(log'[f].path)
                      /\ log[e].value =
                            mNodes[log'[f].from][log[e].path].input_value
      ]_vars

\* a lieutenant has relayed to another lieutenant, in round 1, the value
\* that the source delivered to it in round 0
C13_Witness ==
    \E f \in 1..Len(log) :
        /\ log[f].round = 1
        /\ log[f].from # log[f].to
        /\ \E e \in 1..(f - 1) :
              /\ log[e].round = 0
              /\ log[e].to = log[f].from
              /\ log[e].path = SourceNodePath(log[f].path)
              /\ log[e].value = log[f].value

\* ------------------------------------------------------------------------
\* C14  Within-round order independence.
\* ------------------------------------------------------------------------
RECURSIVE Orders(_)
\* the orders in which the processes of S can take their turn in the inner
\* loop of main.cpp:440-441
Orders(S) ==
    IF S = {} THEN {<<>>}
    ELSE UNION {{<<x>> \o o : o \in Orders(S \ {x})} : x \in S}

RECURSIVE RoundInOrder(_, _, _, _, _, _)
\* the inner loop of main.cpp:440-441 for one round, the processes calling
\* SendMessages in the given order, from the k-th on
RoundInOrder(s, t, pbr, round, order, k) ==
    IF k > Len(order) THEN s
    ELSE RoundInOrder(SendMessages(s, t, pbr, round, order[k]),
                      t, pbr, round, order, k + 1)

\* the order of the source: j = 0, 1, ..., mN-1
MainOrder == [k \in 1..mTraits.mN |-> k - 1]

\* the deliveries of the round about to start, as main makes them
RoundDeliveries ==
    RoundInOrder([nodes |-> mNodes, log |-> <<>>], mTraits, mPathsByRank,
                 pc.round, MainOrder, 1).log

\* main is about to start a round
RoundStart == pc.phase = "send" /\ pc.j = 0

\* the node maps after the round do not depend on the order of the senders
C14_SenderOrderIrrelevant ==
    RoundStart =>
       LET after(order) ==
               RoundInOrder([nodes |-> mNodes, log |-> <<>>], mTraits,
                            mPathsByRank, pc.round, order, 1).nodes
           main == after(MainOrder)
       IN \A order \in Orders(Procs) : after(order) = main

\* no path written in the round is a path read in the round
C14_WritesMissReads ==
    RoundStart =>
       LET d == RoundDeliveries
       IN \A e, f \in 1..Len(d) : d[e].path # SourceNodePath(d[f].path)

\* the deliveries of the round to one receiver carry distinct paths
C14_WritesDistinct ==
    RoundStart =>
       LET d == RoundDeliveries
       IN \A e, f \in 1..Len(d) :
             (d[e].to = d[f].to /\ d[e].path = d[f].path) => e = f

\* C14: at the start of every round, whatever the order in which the
\* processes send, the node maps after the round are those main's order
\* produces, the paths the round writes are none of the paths it reads, and
\* the paths it writes to one receiver are distinct.
C14_OrderIndependence ==
    /\ C14_SenderOrderIrrelevant
    /\ C14_WritesMissReads
    /\ C14_WritesDistinct

\* ------------------------------------------------------------------------
\* C15  Source exclusion: no delivery of any round, by any sender, has the
\* source as its receiver, and in every state the node map of the source is
\* the single node it was seeded with at construction.
\* ------------------------------------------------------------------------
C15_SourceExclusion ==
    /\ \A e \in 1..Len(log) : log[e].to # mTraits.mSource
    /\ mNodes[mTraits.mSource] = ProcessNodes(mTraits, mTraits.mSource)
    /\ DOMAIN mNodes[mTraits.mSource] = {<<>>}

\* ------------------------------------------------------------------------
\* C16  Tree shape.
\* ------------------------------------------------------------------------
\* every path the topology holds: the elements of mPathsByRank, and the keys
\* and elements of mChildren
AllPaths ==
    TopologyPaths \cup DOMAIN mChildren
    \cup UNION {Range(mChildren[k]) : k \in DOMAIN mChildren}

\* the children of path are path extended by ids in ascending order
ChildrenAscending(path) ==
    LET c == ChildrenOf(mChildren, path)
    IN /\ \A k \in 1..Len(c) :
             Len(c[k]) = Len(path) + 1 /\ SourceNodePath(c[k]) = path
       /\ \A k \in 1..(Len(c) - 1) : Last(c[k]) < Last(c[k + 1])

\* As claimed: every path has length at most m+1, every childless path has
\* length exactly m+1, and every path P shorter than m+1 has exactly
\* n - |P| children, in ascending order of the appended id.
C16_Original ==
    \A path \in AllPaths :
        LET c == ChildrenOf(mChildren, path)
        IN /\ Len(path) <= mTraits.mM + 1
           /\ Len(c) = 0 => Len(path) = mTraits.mM + 1
           /\ Len(path) < mTraits.mM + 1 =>
                 Len(c) = mTraits.mN - Len(path) /\ ChildrenAscending(path)

\* C16 as amended: every path has length at most m+1, a childless path has
\* length m+1 or, when n <= m, length n (every id used), and every path P
\* shorter than m+1 has exactly n - |P| children, in ascending order of the
\* appended id.
C16_TreeShape ==
    \A path \in AllPaths :
        LET c == ChildrenOf(mChildren, path)
        IN /\ Len(path) <= mTraits.mM + 1
           /\ Len(c) = 0 =>
                 Len(path) = (IF mTraits.mN <= mTraits.mM
                              THEN mTraits.mN ELSE mTraits.mM + 1)
           /\ Len(path) < mTraits.mM + 1 =>
                 Len(c) = mTraits.mN - Len(path) /\ ChildrenAscending(path)

\* a tree with a root of three or more children, each a leaf of length m+1
C16_Witness ==
    /\ mTraits.mM >= 1
    /\ Len(ChildrenOf(mChildren, TopPath)) >= 3
    /\ Len(ChildrenOf(mChildren, TopPath)) = mTraits.mN - 1
    /\ \E path \in AllPaths :
          /\ Len(path) = mTraits.mM + 1
          /\ Len(ChildrenOf(mChildren, path)) = 0

\* ------------------------------------------------------------------------
\* C17  Non-revisit: every path the topology holds (elements of
\* mPathsByRank, keys and elements of mChildren) is a sequence of pairwise
\* distinct ids of 0..n-1 that starts with the source, and every path listed
\* in mPathsByRank[r][i] has length r+1 and last id i.
\* ------------------------------------------------------------------------
C17_NonRevisit ==
    /\ \A path \in AllPaths :
          /\ Len(path) >= 1
          /\ path[1] = mTraits.mSource
          /\ \A k \in 1..Len(path) : path[k] \in 0..(mTraits.mN - 1)
          /\ \A k, l \in 1..Len(path) : path[k] = path[l] => k = l
    /\ \A r \in DOMAIN mPathsByRank : \A i \in DOMAIN mPathsByRank[r] :
          \A k \in 1..Len(mPathsByRank[r][i]) :
             /\ Len(mPathsByRank[r][i][k]) = r + 1
             /\ Last(mPathsByRank[r][i][k]) = i

\* a tree whose rank-1 paths end in two different lieutenants, one with an
\* id below the source's
C17_Witness ==
    /\ mTraits.mM >= 1
    /\ \E i, j \in Lieutenants :
          /\ i < mTraits.mSource
          /\ i # j
          /\ <<mTraits.mSource, i>> \in Range(mPathsByRank[1][i])
          /\ <<mTraits.mSource, j>> \in Range(mPathsByRank[1][j])
          /\ <<mTraits.mSource, j>> \in Range(mChildren[<<mTraits.mSource>>])

\* ------------------------------------------------------------------------
\* C18  Children presence.
\* As claimed: for every path P of the topology, mChildren[P] is non-empty
\* if and only if |P| <= m.
\* ------------------------------------------------------------------------
C18_Original ==
    \A path \in AllPaths :
        Len(ChildrenOf(mChildren, path)) > 0 <=> Len(path) <= mTraits.mM

\* C18 as amended: for every path P of the topology, mChildren[P] is
\* non-empty if and only if |P| <= m and |P| < n (an unused id is left).
C18_ChildrenPresence ==
    \A path \in AllPaths :
        Len(ChildrenOf(mChildren, path)) > 0
        <=> (Len(path) <= mTraits.mM /\ Len(path) < mTraits.mN)

\* a tree in which the root has children and each child of the root, of
\* length m+1, has none
C18_Witness ==
    /\ mTraits.mM >= 1
    /\ mTraits.mN >= 2
    /\ TopPath \in DOMAIN mChildren
    /\ \A k \in 1..Len(mChildren[TopPath]) :
          /\ Len(mChildren[TopPath][k]) = mTraits.mM + 1
          /\ mChildren[TopPath][k] \notin DOMAIN mChildren

\* ------------------------------------------------------------------------
\* C19  Honest-relay consistency: once rounds 0..m have run, for every path
\* P of rank 1 or more whose last id i is a lieutenant that is not faulty,
\* every lieutenant (i included) holds at P the input value that i holds at
\* P with its last id dropped.
\* ------------------------------------------------------------------------
C19_HonestRelay ==
    MessagingDone
    => \A path \in TopologyPaths :
          (Len(path) >= 2 /\ ~IsFaulty(mTraits, Last(path)))
          => \A j \in Lieutenants :
                mNodes[j][path].input_value =
                   mNodes[Last(path)][SourceNodePath(path)].input_value

\* the rounds are over, and a lieutenant that is not faulty has relayed
\* what the source told it to a lieutenant that the source told otherwise
C19_Witness ==
    /\ MessagingDone
    /\ \E i, j \in Lieutenants :
          /\ i # j
          /\ ~IsFaulty(mTraits, i)
          /\ <<mTraits.mSource, i>> \in TopologyPaths
          /\ mNodes[j][<<mTraits.mSource, i>>].input_value =
                mNodes[i][<<mTraits.mSource>>].input_value
          /\ mNodes[j][<<mTraits.mSource>>].input_value #
                mNodes[i][<<mTraits.mSource>>].input_value

\* ------------------------------------------------------------------------
\* C20  Binary closure: if every value delivered in rounds 0..m, by faulty
\* and non-faulty senders alike, is ZERO or ONE and the default is ZERO or
\* ONE, then in the node map of every lieutenant that has decided every
\* output value is ZERO or ONE, and so is the lieutenant's decision.
\* ------------------------------------------------------------------------
BinaryRun ==
    /\ MessagingDone
    /\ GetDefault(mTraits) \in {ZERO, ONE}
    /\ \A e \in 1..Len(log) : log[e].value \in {ZERO, ONE}

C20_BinaryClosure ==
    BinaryRun
    => \A p \in Lieutenants :
          calls[p] >= 1
          => /\ decision[p] \in {ZERO, ONE}
             /\ \A path \in DOMAIN mNodes[p] :
                   mNodes[p][path].output_value \in {ZERO, ONE}

\* a lieutenant has decided in a run of binary values in which the children
\* of its root were split evenly between ONE and ZERO
C20_Witness ==
    /\ BinaryRun
    /\ \E p \in Lieutenants :
          /\ calls[p] >= 1
          /\ TopPath \in DOMAIN mChildren
          /\ ChildCount(p, TopPath, ONE) = ChildCount(p, TopPath, ZERO)
          /\ ChildCount(p, TopPath, ONE) >= 1
          /\ decision[p] = GetDefault(mTraits)

====
